---------------------------- MODULE Spec2Model ----------------------------
(***************************************************************************)
(* Model of the load calculator `lc` (src/src/main.rs).                    *)
(*                                                                         *)
(* The program is a sequential pipeline:                                   *)
(*   load_machine_data -> parse_user_input -> perform_calculation          *)
(* Strings are sequences of characters, a character being a one-element    *)
(* name ("A", "x", "1", "LF" for the line feed, "U0663" for the two-byte   *)
(* decimal digit ARABIC-INDIC DIGIT THREE).  Option<T> is a sequence of    *)
(* length at most one: <<>> is None and <<v>> is Some(v).  A HashMap is a  *)
(* function whose DOMAIN is its key set; its iteration order is arbitrary. *)
(* u32 values are kept at their width as two 16-bit limbs (a "wide"        *)
(* integer), f64 values are modelled by exact rationals.                   *)
(***************************************************************************)
EXTENDS Integers, Sequences, FiniteSets, TLC

VARIABLES
    pc,                 \* position of the program
    overflow_checks,    \* build profile: TRUE panics on u32 overflow, FALSE wraps
    csv_rows,           \* the records of CSV_DATA, in file order
    row_idx,            \* position of the `for result in reader.deserialize()` loop
    machine_data,       \* HashMap<String, MachineData>
    inputs,             \* cli.machines
    item_idx,           \* position of the `for item in inputs` loop
    input_map,          \* HashMap<String, u32> built by parse_user_input
    result,             \* Err(..) of parse_user_input, <<>> while there is none
    design_temp,        \* cli.design_temp
    canonical_counts,   \* HashMap<String, u32> of perform_calculation
    not_found_inputs,   \* Vec<(&String, &u32)> of perform_calculation
    pending,            \* keys of user_input the `for` loop has not yet visited
    sorted_models,      \* Vec<(String, u32)> sorted by model number
    model_idx,          \* position of the `for .. in sorted_models` loop
    totals,             \* CalculationTotals
    table,              \* rows added to the main table, in order
    prev_table,         \* the table of the previous run on the same input
    record,             \* the MachineData the interpolation is applied to
    target_temp,        \* argument of calculate_heating_capacity_at_temp
    capacity            \* its return value, <<>> before the call

\* what an invocation is given: the build, the embedded data, the command line
envVars == <<overflow_checks, csv_rows, inputs, design_temp>>
\* load_machine_data
loadVars == <<row_idx, machine_data>>
\* parse_user_input
parseVars == <<item_idx, input_map, result>>
\* perform_calculation
calcVars == <<canonical_counts, not_found_inputs, pending, sorted_models,
              model_idx, totals, table>>
\* a direct call of the interpolation
interpVars == <<record, target_temp, capacity>>

vars == <<pc, envVars, loadVars, parseVars, calcVars, interpVars, prev_table>>

-----------------------------------------------------------------------------
(* Generic helpers *)

None == <<>>
Some(v) == <<v>>
IsSome(o) == Len(o) = 1
Unwrap(o) == o[1]
UnwrapOr(o, dflt) == IF IsSome(o) THEN o[1] ELSE dflt

Abs(n) == IF n < 0 THEN -n ELSE n
Max(S) == CHOOSE m \in S : \A n \in S : n <= m

RECURSIVE GCD(_, _)
GCD(a, b) == IF b = 0 THEN Abs(a) ELSE GCD(b, a % b)

\* all sequences over S of length 1..n
RECURSIVE SeqsUpTo(_, _)
SeqsUpTo(S, n) ==
    IF n = 0 THEN {}
    ELSE LET shorter == SeqsUpTo(S, n - 1)
         IN  {<<c>> : c \in S} \cup shorter
                \cup {Append(s, c) : s \in shorter, c \in S}

-----------------------------------------------------------------------------
(* Characters and strings *)

AsciiDigits == {"0", "1", "2", "3", "4", "5", "6", "7", "8", "9"}
AsciiLetters == {"A", "C", "K", "Q", "Z", "x"}

\* char::is_ascii_digit
IsAsciiDigit(c) == c \in AsciiDigits
\* the regex class \d, which is Unicode-aware (any decimal digit)
IsDigitClass(c) == c \in AsciiDigits \cup {"U0663"}
\* the regex class [a-zA-Z0-9]
IsAlnumClass(c) == c \in AsciiLetters \cup AsciiDigits
\* the regex `.`, any character but the line feed
IsDotClass(c) == c # "LF"

\* UTF-8 encoding of a character
Utf8(c) ==
    CASE c = "LF" -> <<10>>
      [] c = "-" -> <<45>>
      [] c = "0" -> <<48>> [] c = "1" -> <<49>> [] c = "2" -> <<50>>
      [] c = "3" -> <<51>> [] c = "4" -> <<52>> [] c = "5" -> <<53>>
      [] c = "6" -> <<54>> [] c = "7" -> <<55>> [] c = "8" -> <<56>>
      [] c = "9" -> <<57>>
      [] c = "A" -> <<65>> [] c = "C" -> <<67>> [] c = "K" -> <<75>>
      [] c = "Q" -> <<81>> [] c = "Z" -> <<90>> [] c = "x" -> <<120>>
      [] c = "U0663" -> <<217, 163>>

DigitValue(c) == Utf8(c)[1] - 48

RECURSIVE Bytes(_)
Bytes(s) == IF s = <<>> THEN <<>> ELSE Utf8(Head(s)) \o Bytes(Tail(s))

\* String::len, the length in bytes
ByteLen(s) == Len(Bytes(s))
\* byte index at which the p-th character (1-based) starts
CharStart(s, p) == ByteLen(SubSeq(s, 1, p - 1))
\* str::is_char_boundary
IsCharBoundary(s, b) == \E p \in 1..(Len(s) + 1) : CharStart(s, p) = b
\* number of whole characters in the first b bytes (b a char boundary)
CharsBefore(s, b) == Cardinality({p \in 1..Len(s) : CharStart(s, p) < b})

\* Ord for String (byte-wise lexicographic): a < b
RECURSIVE BytesLess(_, _)
BytesLess(a, b) ==
    IF b = <<>> THEN FALSE
    ELSE IF a = <<>> THEN TRUE
    ELSE IF Head(a) # Head(b) THEN Head(a) < Head(b)
    ELSE BytesLess(Tail(a), Tail(b))

StrLess(a, b) == BytesLess(Bytes(a), Bytes(b))

-----------------------------------------------------------------------------
(* Wide integers: value = hi * 2^16 + lo with lo in 0..2^16-1.  A u32 is a  *)
(* wide integer with hi in 0..2^16-1; sums and products that leave the u32  *)
(* range stay exact in this representation.                                 *)

LimbBase == 2^16

W(n) == [hi |-> n \div LimbBase, lo |-> n % LimbBase]
WZero == W(0)
WAdd(a, b) ==
    [hi |-> a.hi + b.hi + ((a.lo + b.lo) \div LimbBase),
     lo |-> (a.lo + b.lo) % LimbBase]
WMulInt(a, k) ==
    [hi |-> a.hi * k + ((a.lo * k) \div LimbBase),
     lo |-> (a.lo * k) % LimbBase]

\* the value is in 0 ..= u32::MAX
FitsU32(a) == a.hi >= 0 /\ a.hi < LimbBase
\* the low 32 bits, what a wrapping u32 addition keeps
WrapU32(a) == [hi |-> a.hi % LimbBase, lo |-> a.lo]

\* `a += b` on u32: <<sum>>, or <<>> when the build panics on overflow
AddAssignU32(a, b, checks) ==
    LET sum == WAdd(a, b)
    IN  IF FitsU32(sum) THEN Some(sum)
        ELSE IF checks THEN None
        ELSE Some(WrapU32(sum))

\* str::parse::<u32>: Some(value) for a non-empty run of ASCII digits whose
\* value fits, None (an Err) otherwise
RECURSIVE ParseDigits(_, _)
ParseDigits(s, acc) ==
    IF s = <<>> THEN Some(acc)
    ELSE IF ~IsAsciiDigit(Head(s)) THEN None
    ELSE LET next == WAdd(WMulInt(acc, 10), W(DigitValue(Head(s))))
         IN  IF FitsU32(next) THEN ParseDigits(Tail(s), next) ELSE None

ParseU32(s) == IF s = <<>> THEN None ELSE ParseDigits(s, WZero)

-----------------------------------------------------------------------------
(* parse_user_input *)

\* MODEL_QTY_RE = ^(.+)x(\d+)$ : the positions of an `x` that split the item
\* into a non-empty prefix matched by `.+` and a non-empty run of \d
ModelQtySplits(item) ==
    {i \in 2..(Len(item) - 1) :
        /\ item[i] = "x"
        /\ \A j \in 1..(i - 1) : IsDotClass(item[j])
        /\ \A j \in (i + 1)..Len(item) : IsDigitClass(item[j])}

\* MODEL_QTY_RE.captures(item): <<caps[1], caps[2]>>; `.+` is greedy
ModelQtyCaptures(item) ==
    LET splits == ModelQtySplits(item)
    IN  IF splits = {} THEN None
        ELSE LET i == Max(splits)
             IN  Some(<<SubSeq(item, 1, i - 1), SubSeq(item, i + 1, Len(item))>>)

\* CODE_QTY_RE = ^([a-zA-Z0-9]+?)(\d+)$ : is_match
CodeQtyIsMatch(item) ==
    \E k \in 1..(Len(item) - 1) :
        /\ \A j \in 1..k : IsAlnumClass(item[j])
        /\ \A j \in (k + 1)..Len(item) : IsDigitClass(item[j])

\* item.rfind(|c| !c.is_ascii_digit()): Some(byte index), or None
RFindNonDigit(item) ==
    LET ps == {p \in 1..Len(item) : ~IsAsciiDigit(item[p])}
    IN  IF ps = {} THEN None ELSE Some(CharStart(item, Max(ps)))

\* the split of lines 155-166, taken when CODE_QTY_RE matches
TrailingDigitSplit(item) ==
    LET last_char_index == RFindNonDigit(item)
    IN  IF IsSome(last_char_index)
        THEN LET idx == Unwrap(last_char_index)
             IN  IF idx < ByteLen(item) - 1
                 THEN IF IsCharBoundary(item, idx + 1)
                      THEN LET n == CharsBefore(item, idx + 1)
                           IN  [kind |-> "ok",
                                identifier |-> SubSeq(item, 1, n),
                                count_str |-> SubSeq(item, n + 1, Len(item))]
                      ELSE [kind |-> "panic"]
                 ELSE [kind |-> "ok", identifier |-> item, count_str |-> <<"1">>]
        ELSE [kind |-> "err", msg |-> "Format error", item |-> item]

\* SplitItem with the two rules tried in the other order
SplitItem_CodeFirst(item) ==
    IF CodeQtyIsMatch(item) THEN TrailingDigitSplit(item)
    ELSE LET caps == ModelQtyCaptures(item)
         IN  IF IsSome(caps)
             THEN [kind |-> "ok", identifier |-> Unwrap(caps)[1],
                   count_str |-> Unwrap(caps)[2]]
             ELSE [kind |-> "ok", identifier |-> item, count_str |-> <<"1">>]

\* The split of one item (the `let (identifier, count_str) = ...` expression):
\*   [kind |-> "ok", identifier, count_str], [kind |-> "err", msg, item]
\*   or [kind |-> "panic"] when a slice index is not a char boundary.
SplitItem(item) ==
    LET caps == ModelQtyCaptures(item)
    IN  IF IsSome(caps)
        THEN [kind |-> "ok", identifier |-> Unwrap(caps)[1],
              count_str |-> Unwrap(caps)[2]]
        ELSE IF CodeQtyIsMatch(item) THEN TrailingDigitSplit(item)
        ELSE [kind |-> "ok", identifier |-> item, count_str |-> <<"1">>]

\* HashMap::entry(k).or_insert(0), read
EntryOrZero(map, k) == IF k \in DOMAIN map THEN map[k] ELSE WZero
\* the map with map[k] = v
MapPut(map, k, v) == [x \in DOMAIN map \cup {k} |-> IF x = k THEN v ELSE map[x]]
EmptyMap == [x \in {} |-> WZero]

\* One iteration of `for item in inputs` (lines 151-173).
ParseItem ==
    /\ pc = "parse"
    /\ item_idx <= Len(inputs)
    /\ LET item == inputs[item_idx]
           split == SplitItem(item)
       IN  CASE split.kind = "panic" ->
                  /\ pc' = "panic"
                  /\ UNCHANGED <<input_map, result, item_idx>>
             [] split.kind = "err" ->
                  /\ pc' = "error"
                  /\ result' = Some([msg |-> split.msg, item |-> split.item])
                  /\ UNCHANGED <<input_map, item_idx>>
             [] split.kind = "ok" ->
                  LET count == ParseU32(split.count_str)
                  IN  IF ~IsSome(count)
                      THEN /\ pc' = "error"
                           /\ result' = Some([msg |-> "Qty must be integer", item |-> <<>>])
                           /\ UNCHANGED <<input_map, item_idx>>
                      ELSE LET sum == AddAssignU32(EntryOrZero(input_map, split.identifier),
                                                   Unwrap(count), overflow_checks)
                           IN  IF ~IsSome(sum)
                               THEN /\ pc' = "panic"
                                    /\ UNCHANGED <<input_map, result, item_idx>>
                               ELSE /\ input_map' = MapPut(input_map, split.identifier, Unwrap(sum))
                                    /\ item_idx' = item_idx + 1
                                    /\ UNCHANGED <<pc, result>>
    /\ UNCHANGED <<envVars, loadVars, calcVars, interpVars, prev_table>>

\* `Ok(input_map)` (line 174); main then enters perform_calculation, whose
\* first loop is about to iterate over user_input (lines 198-219).
ParseReturn ==
    /\ pc = "parse"
    /\ item_idx > Len(inputs)
    /\ pc' = "aggregate"
    /\ pending' = DOMAIN input_map
    /\ UNCHANGED <<envVars, loadVars, parseVars, canonical_counts,
                   not_found_inputs, sorted_models, model_idx, totals, table,
                   interpVars, prev_table>>

-----------------------------------------------------------------------------
(* MachineData and the interpolation                                        *)
(*                                                                          *)
(* Temperatures are integers counted in units of 1/UnitsPerDegree degree,   *)
(* so that two temperatures can differ by less than the 1e-6 tolerance of   *)
(* line 113.  Capacities are integers.  The f64 result is the exact         *)
(* rational [n, d] in lowest terms with d > 0 (rounding is not modelled).   *)

UnitsPerDegree == 2 * 10^6
Degrees(n) == n * UnitsPerDegree
\* 1e-6 degree, in units
Tolerance == UnitsPerDegree \div 10^6

Rat(n, d) ==
    LET g == GCD(n, d)
        s == IF d < 0 THEN -1 ELSE 1
    IN  [n |-> s * (n \div g), d |-> s * (d \div g)]
RatOfInt(v) == [n |-> v, d |-> 1]
RatEq(a, b) == a.n * b.d = b.n * a.d
RatLeq(a, b) == a.n * b.d <= b.n * a.d

\* struct MachineData (lines 45-76)
MachineData(model_number, machine_code, ahri, btu_95_min, btu_lowest_max, lowest_temp, btu_5_max, btu_17_max, btu_17_rated, btu_47_max) ==
    [model_number |-> model_number, machine_code |-> machine_code,
     ahri |-> ahri, btu_95_min |-> btu_95_min,
     btu_lowest_max |-> btu_lowest_max, lowest_temp |-> lowest_temp,
     btu_5_max |-> btu_5_max, btu_17_max |-> btu_17_max,
     btu_17_rated |-> btu_17_rated, btu_47_max |-> btu_47_max]

\* lines 80-87: the points pushed, in push order; a point is <<temp, val>>
CollectPoints(self) ==
    (IF IsSome(self.lowest_temp) /\ IsSome(self.btu_lowest_max)
        THEN <<<<Unwrap(self.lowest_temp), Unwrap(self.btu_lowest_max)>>>>
        ELSE <<>>)
    \o (IF IsSome(self.btu_5_max)
        THEN <<<<Degrees(5), Unwrap(self.btu_5_max)>>>> ELSE <<>>)
    \o (IF IsSome(self.btu_17_max)
        THEN <<<<Degrees(17), Unwrap(self.btu_17_max)>>>> ELSE <<>>)
    \o (IF IsSome(self.btu_47_max)
        THEN <<<<Degrees(47), Unwrap(self.btu_47_max)>>>> ELSE <<>>)

\* insertion of pt behind every element whose temperature is <= its own
RECURSIVE InsertByTemp(_, _)
InsertByTemp(sorted, pt) ==
    IF sorted = <<>> THEN <<pt>>
    ELSE IF Head(sorted)[1] <= pt[1]
         THEN <<Head(sorted)>> \o InsertByTemp(Tail(sorted), pt)
         ELSE <<pt>> \o sorted

\* points.sort_by(|a, b| a.0.partial_cmp(&b.0).unwrap()), a stable sort
RECURSIVE SortByTemp(_)
SortByTemp(points) ==
    IF points = <<>> THEN <<>>
    ELSE InsertByTemp(SortByTemp(SubSeq(points, 1, Len(points) - 1)),
                      points[Len(points)])

\* FindWindow without the scan: the default pair is returned as it is
FindWindow_Default(points, target) == <<points[1], points[2]>>

\* lines 100-107: the first window holding the target, else (points[0], points[1])
FindWindow(points, target) ==
    LET hits == {i \in 1..(Len(points) - 1) :
                    target >= points[i][1] /\ target <= points[i + 1][1]}
    IN  IF hits = {} THEN <<points[1], points[2]>>
        ELSE LET i == CHOOSE k \in hits : \A m \in hits : k <= m
             IN  <<points[i], points[i + 1]>>

\* SelectPair taking the two lowest points above the range too
SelectPair_UpperWrong(points, target) ==
    IF target <= points[1][1] \/ target >= points[Len(points)][1]
    THEN <<points[1], points[2]>>
    ELSE FindWindow(points, target)

\* lines 94-108: the pair (p1, p2) of the sorted points
SelectPair(points, target) ==
    IF target <= points[1][1]
    THEN <<points[1], points[2]>>
    ELSE IF target >= points[Len(points)][1]
    THEN <<points[Len(points) - 1], points[Len(points)]>>
    ELSE FindWindow(points, target)

\* Interpolate clamping to y1 below x1 instead of following the slope
Interpolate_Clamped(p1, p2, target) ==
    IF Abs(p2[1] - p1[1]) < Tolerance \/ target < p1[1] THEN RatOfInt(p1[2])
    ELSE LET g == GCD(target - p1[1], p2[1] - p1[1])
             a == (target - p1[1]) \div g
             b == (p2[1] - p1[1]) \div g
         IN  Rat(p1[2] * b + a * (p2[2] - p1[2]), b)

\* lines 110-116: y1 + (target - x1) * ((y2 - y1) / (x2 - x1)), exactly
Interpolate(p1, p2, target) ==
    LET x1 == p1[1]
        y1 == p1[2]
        x2 == p2[1]
        y2 == p2[2]
    IN  IF Abs(x2 - x1) < Tolerance THEN RatOfInt(y1)
        ELSE LET g == GCD(target - x1, x2 - x1)
                 a == (target - x1) \div g
                 b == (x2 - x1) \div g
             IN  Rat(y1 * b + a * (y2 - y1), b)

\* MachineData::calculate_heating_capacity_at_temp (lines 79-117)
calculate_heating_capacity_at_temp(self, target) ==
    LET pushed == CollectPoints(self)
    IN  IF pushed = <<>> THEN RatOfInt(0)
        ELSE IF Len(pushed) = 1 THEN RatOfInt(pushed[1][2])
        ELSE LET points == SortByTemp(pushed)
                 pair == SelectPair(points, target)
             IN  Interpolate(pair[1], pair[2], target)

\* One call of calculate_heating_capacity_at_temp on `record`.
CallCapacity ==
    /\ pc = "interp"
    /\ capacity' = Some(calculate_heating_capacity_at_temp(record, target_temp))
    /\ pc' = "interp_done"
    /\ UNCHANGED <<envVars, loadVars, parseVars, calcVars, record,
                   target_temp, prev_table>>

-----------------------------------------------------------------------------
(* load_machine_data *)

NoData == [x \in {} |-> 0]

\* One iteration of `for result in reader.deserialize()` (lines 181-187):
\* the record is stored under its model number and then under its machine
\* code, each insert replacing what the key held.
LoadRow ==
    /\ pc = "load"
    /\ row_idx <= Len(csv_rows)
    /\ LET rec == csv_rows[row_idx]
           by_model == MapPut(machine_data, rec.model_number, rec)
       IN  machine_data' =
               IF IsSome(rec.machine_code)
               THEN MapPut(by_model, Unwrap(rec.machine_code), rec)
               ELSE by_model
    /\ row_idx' = row_idx + 1
    /\ UNCHANGED <<pc, envVars, parseVars, calcVars, interpVars, prev_table>>

\* `Ok(data_map)` (line 188); main goes on to parse_user_input (line 313).
LoadReturn ==
    /\ pc = "load"
    /\ row_idx > Len(csv_rows)
    /\ pc' = "parse"
    /\ UNCHANGED <<envVars, loadVars, parseVars, calcVars, interpVars, prev_table>>

-----------------------------------------------------------------------------
(* perform_calculation *)

\* An f64 total: the exact rational n / d with n a wide integer and d > 0.
WRat(n, d) == [n |-> n, d |-> d]
WRatZero == WRat(WZero, 1)
LCM(a, b) == (a \div GCD(a, b)) * b
WRatAdd(a, b) ==
    LET d == LCM(a.d, b.d)
    IN  WRat(WAdd(WMulInt(a.n, d \div a.d), WMulInt(b.n, d \div b.d)), d)
WRatEq(a, b) ==
    LET d == LCM(a.d, b.d)
    IN  WMulInt(a.n, d \div a.d) = WMulInt(b.n, d \div b.d)
\* value * qty, for a rational value and qty = count as f64
MulQty(value, qty) == WRat(WMulInt(qty, value.n), value.d)

\* struct CalculationTotals, Default::default() (lines 121-128, 198)
ZeroTotals ==
    [total_btu_95_min |-> WRatZero, total_btu_5_max |-> WRatZero,
     total_btu_17_max |-> WRatZero, total_btu_17_rated |-> WRatZero,
     total_btu_design_max |-> WRatZero]

\* the least string of a non-empty set, by Ord for String
MinStr(S) == CHOOSE a \in S : \A b \in S : a = b \/ StrLess(a, b)

\* lines 228-229: canonical_counts as a Vec of <<model_number, count>> sorted
\* by model number
RECURSIVE SortedPairs(_, _)
SortedPairs(counts, keys) ==
    IF keys = {} THEN <<>>
    ELSE LET m == MinStr(keys)
         IN  <<<<m, counts[m]>>>> \o SortedPairs(counts, keys \ {m})

\* One iteration of `for (identifier, count) in user_input` (lines 219-225);
\* the HashMap yields its entries in an arbitrary order.
AggregateItem ==
    /\ pc = "aggregate"
    /\ \E identifier \in pending :
        LET count == input_map[identifier]
        IN  /\ pending' = pending \ {identifier}
            /\ IF identifier \in DOMAIN machine_data
               THEN LET data == machine_data[identifier]
                        sum == AddAssignU32(
                                   EntryOrZero(canonical_counts, data.model_number),
                                   count, overflow_checks)
                    IN  IF IsSome(sum)
                        THEN /\ canonical_counts' =
                                    MapPut(canonical_counts, data.model_number, Unwrap(sum))
                             /\ UNCHANGED <<pc, not_found_inputs>>
                        ELSE /\ pc' = "panic"
                             /\ UNCHANGED <<canonical_counts, not_found_inputs>>
               ELSE /\ not_found_inputs' = Append(not_found_inputs, <<identifier, count>>)
                    /\ UNCHANGED <<pc, canonical_counts>>
    /\ UNCHANGED <<envVars, loadVars, parseVars, sorted_models, model_idx,
                   totals, table, interpVars, prev_table>>

\* The end of the first loop and the sort (lines 227-229).
SortModels ==
    /\ pc = "aggregate"
    /\ pending = {}
    /\ sorted_models' = SortedPairs(canonical_counts, DOMAIN canonical_counts)
    /\ model_idx' = 1
    /\ pc' = "totals"
    /\ UNCHANGED <<envVars, loadVars, parseVars, canonical_counts,
                   not_found_inputs, pending, totals, table, interpVars,
                   prev_table>>

\* a row of the main table: a resolved model (lines 247-253) or an
\* unresolved identifier (lines 259-265); None stands for the cell "-"
ModelRow(data, count, btu_95, btu_design) ==
    [found |-> TRUE, model |-> data.model_number, qty |-> count,
     ahri |-> data.ahri, btu_95 |-> Some(btu_95), btu_design |-> Some(btu_design)]
NotFoundRow(identifier, count) ==
    [found |-> FALSE, model |-> identifier, qty |-> count,
     ahri |-> None, btu_95 |-> None, btu_design |-> None]

\* One iteration of `for (model_number, count) in sorted_models`
\* (lines 231-255).
TotalsItem ==
    /\ pc = "totals"
    /\ model_idx <= Len(sorted_models)
    /\ LET model_number == sorted_models[model_idx][1]
           count == sorted_models[model_idx][2]
       IN  IF model_number \in DOMAIN machine_data
           THEN LET data == machine_data[model_number]
                    qty == count
                    btu_95_min == RatOfInt(UnwrapOr(data.btu_95_min, 0))
                    btu_design_max ==
                        calculate_heating_capacity_at_temp(data, design_temp)
                IN  /\ totals' =
                         [total_btu_95_min |->
                              WRatAdd(totals.total_btu_95_min, MulQty(btu_95_min, qty)),
                          total_btu_design_max |->
                              WRatAdd(totals.total_btu_design_max,
                                      MulQty(btu_design_max, qty)),
                          total_btu_5_max |->
                              WRatAdd(totals.total_btu_5_max,
                                      MulQty(RatOfInt(UnwrapOr(data.btu_5_max, 0)), qty)),
                          total_btu_17_max |->
                              WRatAdd(totals.total_btu_17_max,
                                      MulQty(RatOfInt(UnwrapOr(data.btu_17_max, 0)), qty)),
                          total_btu_17_rated |->
                              WRatAdd(totals.total_btu_17_rated,
                                      MulQty(RatOfInt(UnwrapOr(data.btu_17_rated, 0)), qty))]
                    /\ table' = Append(table,
                                       ModelRow(data, count, MulQty(btu_95_min, qty),
                                                MulQty(btu_design_max, qty)))
           ELSE UNCHANGED <<totals, table>>
    /\ model_idx' = model_idx + 1
    /\ UNCHANGED <<pc, envVars, loadVars, parseVars, canonical_counts,
                   not_found_inputs, pending, sorted_models, interpVars,
                   prev_table>>

RECURSIVE NotFoundRows(_)
NotFoundRows(entries) ==
    IF entries = <<>> THEN <<>>
    ELSE <<NotFoundRow(Head(entries)[1], Head(entries)[2])>>
            \o NotFoundRows(Tail(entries))

\* The rows of the unresolved identifiers, the print and the return of the
\* totals (lines 257-271).
AddNotFound ==
    /\ pc = "totals"
    /\ model_idx > Len(sorted_models)
    /\ table' = table \o NotFoundRows(not_found_inputs)
    /\ pc' = "done"
    /\ UNCHANGED <<envVars, loadVars, parseVars, canonical_counts,
                   not_found_inputs, pending, sorted_models, model_idx, totals,
                   interpVars, prev_table>>

-----------------------------------------------------------------------------
(* main, run a second time on the same command line and the same data *)

\* The process exits after the report (lines 309-321) and `lc` is invoked
\* again with the same arguments; the table of the first run is remembered.
Rerun ==
    /\ pc = "done"
    /\ prev_table = None
    /\ prev_table' = Some(table)
    /\ pc' = "load"
    /\ row_idx' = 1
    /\ machine_data' = NoData
    /\ item_idx' = 1
    /\ input_map' = EmptyMap
    /\ result' = None
    /\ canonical_counts' = EmptyMap
    /\ not_found_inputs' = <<>>
    /\ pending' = {}
    /\ sorted_models' = <<>>
    /\ model_idx' = 1
    /\ totals' = ZeroTotals
    /\ table' = <<>>
    /\ UNCHANGED <<envVars, interpVars>>

-----------------------------------------------------------------------------
(* Bounds and the inputs drawn from them *)

MaxLen == 3        \* longest token enumerated over the whole alphabet
MaxTokens == 2     \* most tokens on the command line of a full run
MaxRows == 2       \* most records in the embedded CSV of a full run
MaxBtu == 2        \* largest capacity of an interpolated record

\* --- tokens for parse_user_input alone
Alphabet == {"A", "x", "0", "1", "-", "LF", "U0663"}
U32MaxDigits == <<"4", "2", "9", "4", "9", "6", "7", "2", "9", "5">>
U32OverDigits == <<"4", "2", "9", "4", "9", "6", "7", "2", "9", "6">>
BoundaryTokens ==
    {<<"A", "x">> \o U32MaxDigits, <<"A", "x">> \o U32OverDigits,
     <<"A">> \o U32MaxDigits, <<"A">> \o U32OverDigits,
     U32MaxDigits, U32OverDigits}
Tokens == SeqsUpTo(Alphabet, MaxLen) \cup BoundaryTokens

\* --- the command lines of a full run
PipelineTokens ==
    {<<"A">>, <<"K", "x", "2">>, <<"C">>, <<"Z">>, <<"Q", "2">>,
     <<"A", "x">> \o U32MaxDigits}
TokenLists == SeqsUpTo(PipelineTokens, MaxTokens)

\* --- the embedded CSV of a full run: two models, each with or without a
\* machine code; the code "A" is also the other record's model number
RecordA(code) ==
    MachineData(<<"A">>, code, Some(7), Some(3), Some(1), Some(Degrees(-13)),
                Some(2), Some(4), Some(3), Some(6))
RecordC(code) ==
    MachineData(<<"C">>, code, None, None, Some(9), None,
                Some(1), None, None, Some(3))
MachineCodes == {None, Some(<<"K">>), Some(<<"A">>)}
CsvRecords == {RecordA(code) : code \in MachineCodes}
                \cup {RecordC(code) : code \in MachineCodes}
CsvFiles == {<<>>} \cup SeqsUpTo(CsvRecords, MaxRows)
DesignTemps == {Degrees(17), Degrees(25)}

\* --- the records and targets of a direct call of the interpolation
OptBtu == {None} \cup {Some(v) : v \in 0..MaxBtu}
LowestTemps ==
    {None, Some(Degrees(-13)), Some(Degrees(5)), Some(Degrees(5) + 1),
     Some(Degrees(5) + Tolerance), Some(Degrees(30))}
InterpRecords ==
    {MachineData(<<"A">>, None, None, None, lo, lt, b5, b17, None, b47) :
        lo \in OptBtu, lt \in LowestTemps, b5 \in OptBtu, b17 \in OptBtu,
        b47 \in OptBtu}
InterpTargets ==
    {Degrees(-20), Degrees(-13), Degrees(0), Degrees(5) - 1, Degrees(5),
     Degrees(5) + 1, Degrees(5) + Tolerance, Degrees(10), Degrees(17),
     Degrees(25), Degrees(30), Degrees(47), Degrees(50)}

-----------------------------------------------------------------------------
(* Specifications *)

\* the state of the three functions before any of them ran
Fresh ==
    /\ row_idx = 1
    /\ machine_data = NoData
    /\ item_idx = 1
    /\ input_map = EmptyMap
    /\ result = None
    /\ canonical_counts = EmptyMap
    /\ not_found_inputs = <<>>
    /\ pending = {}
    /\ sorted_models = <<>>
    /\ model_idx = 1
    /\ totals = ZeroTotals
    /\ table = <<>>
    /\ prev_table = None

NoCall ==
    /\ record = None
    /\ target_temp = 0
    /\ capacity = None

\* a full run of main
Init ==
    /\ pc = "load"
    /\ overflow_checks \in BOOLEAN
    /\ csv_rows \in CsvFiles
    /\ inputs \in TokenLists
    /\ design_temp \in DesignTemps
    /\ Fresh
    /\ NoCall

Next ==
    \/ LoadRow
    \/ LoadReturn
    \/ ParseItem
    \/ ParseReturn
    \/ AggregateItem
    \/ SortModels
    \/ TotalsItem
    \/ AddNotFound

Spec == Init /\ [][Next]_vars

\* two runs of main on the same input
NextRuns == Next \/ Rerun
SpecRuns == Init /\ [][NextRuns]_vars

\* parse_user_input on one token
InitParse ==
    /\ pc = "parse"
    /\ overflow_checks \in BOOLEAN
    /\ csv_rows = <<>>
    /\ inputs \in {<<t>> : t \in Tokens}
    /\ design_temp = Degrees(17)
    /\ Fresh
    /\ NoCall

NextParse == ParseItem \/ ParseReturn
SpecParse == InitParse /\ [][NextParse]_vars

\* calculate_heating_capacity_at_temp on one record and one target
InitInterp ==
    /\ pc = "interp"
    /\ overflow_checks \in BOOLEAN
    /\ csv_rows = <<>>
    /\ inputs = <<>>
    /\ design_temp = Degrees(17)
    /\ Fresh
    /\ record \in InterpRecords
    /\ target_temp \in InterpTargets
    /\ capacity = None

NextInterp == CallCapacity
SpecInterp == InitInterp /\ [][NextInterp]_vars

-----------------------------------------------------------------------------
(* Properties of parse_user_input on one token (SpecParse) *)

\* the loop body has run on inputs[1]
ItemProcessed == item_idx > 1 \/ pc \in {"error", "panic"}

AllAsciiDigits(s) == s # <<>> /\ \A j \in 1..Len(s) : IsAsciiDigit(s[j])

\* the exact value of a run of ASCII digits, as a wide integer
RECURSIVE DecimalValue(_)
DecimalValue(s) ==
    IF s = <<>> THEN WZero
    ELSE WAdd(WMulInt(DecimalValue(SubSeq(s, 1, Len(s) - 1)), 10),
              W(DigitValue(s[Len(s)])))

\* the map holding the one pair (identifier, quantity)
OnePair(identifier, quantity) == MapPut(EmptyMap, identifier, quantity)

\* the item was recorded as (identifier, quantity) and nothing failed
RecordedAs(identifier, quantity) ==
    /\ pc \notin {"error", "panic"}
    /\ result = None
    /\ input_map = OnePair(identifier, quantity)

\* C1 (as claimed): every token made only of ASCII digits is recorded
\* verbatim as an identifier with quantity 1 and no error is returned.
C1_AllDigitsLiteral ==
    (ItemProcessed /\ AllAsciiDigits(inputs[1]))
        => RecordedAs(inputs[1], W(1))

\* positions of a lowercase x followed by ASCII digits up to the end of the
\* token and preceded by at least one character
XSuffixes(t) ==
    {i \in 2..(Len(t) - 1) :
        t[i] = "x" /\ AllAsciiDigits(SubSeq(t, i + 1, Len(t)))}
XPrefix(t) == SubSeq(t, 1, Max(XSuffixes(t)) - 1)
XDigits(t) == SubSeq(t, Max(XSuffixes(t)) + 1, Len(t))

\* C2 (as claimed): every token <characters>x<digits> is recorded as the
\* text before the x<digits> suffix with the digit run as its quantity.
C2_AnyXSuffix ==
    (ItemProcessed /\ XSuffixes(inputs[1]) # {})
        => RecordedAs(XPrefix(inputs[1]), DecimalValue(XDigits(inputs[1])))

\* the prefix has no line feed and the digit run is a u32
XSuffixParsable(t) ==
    /\ XSuffixes(t) # {}
    /\ \A j \in 1..Len(XPrefix(t)) : XPrefix(t)[j] # "LF"
    /\ FitsU32(DecimalValue(XDigits(t)))

\* C2 (amended): every token <prefix>x<digits>, the prefix one or more
\* characters other than the line feed and the digits one or more ASCII
\* digits whose value is at most u32::MAX, is recorded as (prefix, value of
\* the digits); the trailing-digit rule never splits it, also when the token
\* is alphanumeric and ends in digits.
C2_Rule1First ==
    (ItemProcessed /\ XSuffixParsable(inputs[1]))
        => RecordedAs(XPrefix(inputs[1]), DecimalValue(XDigits(inputs[1])))

\* witness of C2: a token both rules match was recorded by rule 1
C2_Witness ==
    /\ ItemProcessed
    /\ XSuffixParsable(inputs[1])
    /\ CodeQtyIsMatch(inputs[1])
    /\ RecordedAs(XPrefix(inputs[1]), DecimalValue(XDigits(inputs[1])))

-----------------------------------------------------------------------------
(* Properties of calculate_heating_capacity_at_temp (SpecInterp) *)

Returned == pc = "interp_done"

\* the usable points of a record, by name, with their coordinates
PointNames(r) ==
    (IF IsSome(r.lowest_temp) /\ IsSome(r.btu_lowest_max) THEN {"lowest"} ELSE {})
        \cup (IF IsSome(r.btu_5_max) THEN {"at5"} ELSE {})
        \cup (IF IsSome(r.btu_17_max) THEN {"at17"} ELSE {})
        \cup (IF IsSome(r.btu_47_max) THEN {"at47"} ELSE {})
PointTemp(r, k) ==
    CASE k = "lowest" -> Unwrap(r.lowest_temp)
      [] k = "at5" -> Degrees(5)
      [] k = "at17" -> Degrees(17)
      [] k = "at47" -> Degrees(47)
PointVal(r, k) ==
    CASE k = "lowest" -> Unwrap(r.btu_lowest_max)
      [] k = "at5" -> Unwrap(r.btu_5_max)
      [] k = "at17" -> Unwrap(r.btu_17_max)
      [] k = "at47" -> Unwrap(r.btu_47_max)

\* no other usable point lies within the tolerance of point k
Isolated(r, k) ==
    \A q \in PointNames(r) \ {k} :
        Abs(PointTemp(r, q) - PointTemp(r, k)) >= Tolerance

\* C5 (as claimed): at the temperature of any usable point the capacity is
\* that point's capacity.
C5_ExactAtEveryNode ==
    Returned =>
        \A k \in PointNames(record) :
            PointTemp(record, k) = target_temp
                => RatEq(Unwrap(capacity), RatOfInt(PointVal(record, k)))

\* C5 (amended): at the temperature of a usable point that is at least 1e-6
\* away from every other usable point of the record, the capacity is that
\* point's capacity.
C5_ExactAtIsolatedNode ==
    Returned =>
        \A k \in PointNames(record) :
            (PointTemp(record, k) = target_temp /\ Isolated(record, k))
                => RatEq(Unwrap(capacity), RatOfInt(PointVal(record, k)))

\* witness of C5: the target is an inner node between two points of other
\* capacities, and the node's capacity came back
C5_Witness ==
    /\ Returned
    /\ \E k, lo, hi \in PointNames(record) :
        /\ PointTemp(record, lo) < PointTemp(record, k)
        /\ PointTemp(record, k) < PointTemp(record, hi)
        /\ PointVal(record, lo) # PointVal(record, k)
        /\ PointVal(record, hi) # PointVal(record, k)
        /\ PointTemp(record, k) = target_temp
        /\ Isolated(record, k)
        /\ RatEq(Unwrap(capacity), RatOfInt(PointVal(record, k)))

\* the sorted points the function works on
SortedPoints == SortByTemp(CollectPoints(record))

\* the value at t of the straight line through p1 and p2
LineValue(p1, p2, t) ==
    Rat(p1[2] * (p2[1] - p1[1]) + (t - p1[1]) * (p2[2] - p1[2]), p2[1] - p1[1])
OnLine(c, p1, p2, t) == p1[1] # p2[1] /\ c = LineValue(p1, p2, t)

BelowRange ==
    /\ Returned
    /\ Len(SortedPoints) >= 2
    /\ target_temp < SortedPoints[1][1]

\* C6 (as claimed): below the lowest temperature the result lies on the line
\* through the two lowest points and is not their lowest capacity when the
\* two capacities differ.
C6_AlwaysExtrapolates ==
    BelowRange =>
        LET p1 == SortedPoints[1]
            p2 == SortedPoints[2]
        IN  /\ OnLine(Unwrap(capacity), p1, p2, target_temp)
            /\ p1[2] # p2[2] => ~RatEq(Unwrap(capacity), RatOfInt(p1[2]))

\* C6 (amended): below the lowest temperature, when the first two points of
\* the sorted list are at least 1e-6 apart the result lies on the line
\* through them (and differs from the first capacity when the two capacities
\* differ); when they are closer the result is the first point's capacity.
C6_ExtrapolatesBelow ==
    BelowRange =>
        LET p1 == SortedPoints[1]
            p2 == SortedPoints[2]
        IN  IF p2[1] - p1[1] >= Tolerance
            THEN /\ OnLine(Unwrap(capacity), p1, p2, target_temp)
                 /\ p1[2] # p2[2] => ~RatEq(Unwrap(capacity), RatOfInt(p1[2]))
            ELSE Unwrap(capacity) = RatOfInt(p1[2])

\* witness of C6: an extrapolation below the range that left the lowest
\* point's capacity
C6_Witness ==
    /\ BelowRange
    /\ SortedPoints[2][1] - SortedPoints[1][1] >= Tolerance
    /\ SortedPoints[1][2] # SortedPoints[2][2]
    /\ OnLine(Unwrap(capacity), SortedPoints[1], SortedPoints[2], target_temp)
    /\ ~RatEq(Unwrap(capacity), RatOfInt(SortedPoints[1][2]))

InRange ==
    /\ Returned
    /\ Len(SortedPoints) >= 2
    /\ SortedPoints[1][1] < target_temp
    /\ target_temp < SortedPoints[Len(SortedPoints)][1]

\* the adjacent pairs of the sorted list that hold the target
Brackets ==
    {i \in 1..(Len(SortedPoints) - 1) :
        SortedPoints[i][1] <= target_temp /\ target_temp <= SortedPoints[i + 1][1]}
FirstBracket == CHOOSE i \in Brackets : \A j \in Brackets : i <= j

Between(c, y1, y2) ==
    \/ RatLeq(RatOfInt(y1), c) /\ RatLeq(c, RatOfInt(y2))
    \/ RatLeq(RatOfInt(y2), c) /\ RatLeq(c, RatOfInt(y1))

\* C7 (as claimed): strictly inside the range the result is the linear
\* interpolation over the first adjacent pair holding the target, a value
\* between the pair's capacities.
C7_AlwaysInterpolates ==
    InRange =>
        /\ Brackets # {}
        /\ LET p1 == SortedPoints[FirstBracket]
               p2 == SortedPoints[FirstBracket + 1]
           IN  /\ OnLine(Unwrap(capacity), p1, p2, target_temp)
               /\ Between(Unwrap(capacity), p1[2], p2[2])

\* C7 (amended): strictly inside the range the first adjacent pair holding
\* the target is used; the result is the linear interpolation over it when
\* its temperatures are at least 1e-6 apart and its first capacity when they
\* are closer, in both cases a value between the pair's capacities.
C7_InterpolatesInRange ==
    InRange =>
        /\ Brackets # {}
        /\ LET p1 == SortedPoints[FirstBracket]
               p2 == SortedPoints[FirstBracket + 1]
           IN  /\ IF p2[1] - p1[1] >= Tolerance
                  THEN OnLine(Unwrap(capacity), p1, p2, target_temp)
                  ELSE Unwrap(capacity) = RatOfInt(p1[2])
               /\ Between(Unwrap(capacity), p1[2], p2[2])

\* witness of C7: an interpolation over a pair that is not the first pair of
\* the list, strictly between two different capacities
C7_Witness ==
    /\ InRange
    /\ FirstBracket > 1
    /\ LET p1 == SortedPoints[FirstBracket]
           p2 == SortedPoints[FirstBracket + 1]
       IN  /\ p1[1] < target_temp /\ target_temp < p2[1]
           /\ p1[2] # p2[2]
           /\ OnLine(Unwrap(capacity), p1, p2, target_temp)
           /\ ~RatEq(Unwrap(capacity), RatOfInt(p1[2]))
           /\ ~RatEq(Unwrap(capacity), RatOfInt(p2[2]))

-----------------------------------------------------------------------------
(* Properties of a full run (Spec, SpecRuns) *)

\* parse_user_input returned Ok
ParsedOk == pc \in {"aggregate", "totals", "done"}
\* the first loop of perform_calculation has ended
Aggregated == pc \in {"totals", "done"}

\* identifier and quantity of one token
TokenIdentifier(t) == SplitItem(t).identifier
TokenQuantity(t) == DecimalValue(SplitItem(t).count_str)

\* the exact sum of the quantities of the first n tokens with identifier id
RECURSIVE TokenSum(_, _)
TokenSum(id, n) ==
    IF n = 0 THEN WZero
    ELSE IF TokenIdentifier(inputs[n]) = id
         THEN WAdd(TokenSum(id, n - 1), TokenQuantity(inputs[n]))
         ELSE TokenSum(id, n - 1)

\* the requested identifiers the catalog resolves to model m
ResolvingTo(m) ==
    {id \in DOMAIN input_map :
        id \in DOMAIN machine_data /\ machine_data[id].model_number = m}

\* the exact sum of the requested quantities of a set of identifiers
RECURSIVE RequestedSum(_)
RequestedSum(ids) ==
    IF ids = {} THEN WZero
    ELSE LET id == CHOOSE x \in ids : TRUE
         IN  WAdd(input_map[id], RequestedSum(ids \ {id}))

\* C9 (as claimed): no addition wraps or aborts; the merged quantities and
\* the per-model counts are the exact sums.
C9_ExactSums ==
    /\ pc # "panic"
    /\ ParsedOk =>
         \A id \in DOMAIN input_map : input_map[id] = TokenSum(id, Len(inputs))
    /\ Aggregated =>
         \A m \in DOMAIN canonical_counts :
             canonical_counts[m] = RequestedSum(ResolvingTo(m))

\* number of entries of the unresolved list that name the identifier
TimesNotFound(id) ==
    Cardinality({i \in 1..Len(not_found_inputs) : not_found_inputs[i][1] = id})

\* C3 (as claimed): after the aggregation every requested identifier is in
\* exactly one output, every per-model count is the sum of the quantities of
\* the identifiers resolved to that model, and every unresolved identifier
\* is listed once with its quantity.
C3_Aggregation ==
    Aggregated =>
        /\ \A id \in DOMAIN input_map :
             IF id \in DOMAIN machine_data
             THEN /\ TimesNotFound(id) = 0
                  /\ machine_data[id].model_number \in DOMAIN canonical_counts
             ELSE /\ TimesNotFound(id) = 1
                  /\ \E i \in 1..Len(not_found_inputs) :
                        not_found_inputs[i] = <<id, input_map[id]>>
        /\ \A m \in DOMAIN canonical_counts :
             /\ ResolvingTo(m) # {}
             /\ canonical_counts[m] = RequestedSum(ResolvingTo(m))

\* C10 (as claimed): every canonical model number is a key of the catalog
\* and the record under that key carries that model number.
C10_RecordIdentity ==
    Aggregated =>
        \A m \in DOMAIN canonical_counts :
            m \in DOMAIN machine_data /\ machine_data[m].model_number = m

\* the record a canonical model number was resolved from
ResolvedRecord(m) == machine_data[CHOOSE id \in ResolvingTo(m) : TRUE]

\* what one unit of a record adds to the total named k
TotalValue(data, k) ==
    CASE k = "total_btu_95_min" -> RatOfInt(UnwrapOr(data.btu_95_min, 0))
      [] k = "total_btu_5_max" -> RatOfInt(UnwrapOr(data.btu_5_max, 0))
      [] k = "total_btu_17_max" -> RatOfInt(UnwrapOr(data.btu_17_max, 0))
      [] k = "total_btu_17_rated" -> RatOfInt(UnwrapOr(data.btu_17_rated, 0))
      [] k = "total_btu_design_max" ->
            calculate_heating_capacity_at_temp(data, design_temp)

\* the sum over a set of models of (the model's value for k) * its count
RECURSIVE ModelSum(_, _)
ModelSum(k, models) ==
    IF models = {} THEN WRatZero
    ELSE LET m == CHOOSE x \in models : TRUE
         IN  WRatAdd(MulQty(TotalValue(ResolvedRecord(m), k), canonical_counts[m]),
                     ModelSum(k, models \ {m}))

\* C8 (as claimed): the returned total_btu_95_min is the sum over the
\* resolved models of the model's btu_95_min (0 when absent) times its
\* aggregated quantity; the five totals hold the contributions of the
\* resolved models and nothing of the unresolved identifiers.
C8_SummationLaw ==
    pc = "done" =>
        \A k \in DOMAIN totals :
            WRatEq(totals[k], ModelSum(k, DOMAIN canonical_counts))

\* the NOT FOUND rows of a table, in the order of the table
IsNotFound(row) == ~row.found
NotFoundPart(t) == SelectSeq(t, IsNotFound)

\* C4 (as claimed): two runs on the same tokens and the same catalog emit
\* the NOT FOUND rows in the same order.
C4_SameOrderEveryRun ==
    (pc = "done" /\ prev_table # None)
        => NotFoundPart(table) = NotFoundPart(Unwrap(prev_table))

=============================================================================
